---- MODULE Spec2Model ----
(***************************************************************************)
(* Model of the audio-labeller signal pipeline (services/audioUtils):      *)
(* the radix-2 FFT kernel, the Hann window, the mel filterbank, the        *)
(* spectrogram builder (computeSpectrogram) and the masked reconstruction  *)
(* (applyMaskAndReconstruct).                                              *)
(*                                                                         *)
(* Numbers.  The code computes in IEEE doubles and stores into            *)
(* Float32Array.  The model computes in binary fixed point: a number v is  *)
(* the integer round(v * One), One = 2^12.  Sums are exact, products and   *)
(* quotients are rounded to the nearest unit.  Every value the pipeline    *)
(* meets for windowSize in {2,3,4} (window 0, 3/4, 1; twiddles 0, 1, -1)   *)
(* is exact in this representation; cos(pi/2), which the code stores as    *)
(* 6.1e-17, is 0 here.  NaN (a read outside a buffer multiplied into a     *)
(* frame) is a distinguished value that every operation propagates.        *)
(* Arrays keep the code's 0-based indices: functions on 0..len-1.          *)
(***************************************************************************)
EXTENDS Integers, Sequences, FiniteSets, TLC

One == 2^12
NaN == -(2^30)

\* ------------------------------------------------------------ arithmetic

IsNaN(a) == a = NaN

Add(a, b) == IF IsNaN(a) \/ IsNaN(b) THEN NaN ELSE a + b

Sub(a, b) == IF IsNaN(a) \/ IsNaN(b) THEN NaN ELSE a - b

Neg(a) == IF IsNaN(a) THEN NaN ELSE 0 - a

\* p / d rounded to the nearest integer (d > 0)
RoundDiv(p, d) == (2 * p + d) \div (2 * d)

\* product of two fixed-point numbers
Mul(a, b) == IF IsNaN(a) \/ IsNaN(b) THEN NaN ELSE RoundDiv(a * b, One)

\* quotient of two fixed-point numbers, b # 0
Div(a, b) ==
  IF IsNaN(a) \/ IsNaN(b) THEN NaN
  ELSE IF b > 0 THEN RoundDiv(a * One, b) ELSE 0 - RoundDiv(a * One, 0 - b)

\* a fixed-point number divided by a non-zero integer count
DivInt(a, k) ==
  IF IsNaN(a) THEN NaN
  ELSE IF k > 0 THEN RoundDiv(a, k) ELSE 0 - RoundDiv(a, 0 - k)

\* new Float32Array(len): zeros on 0..len-1
Zeros(len) == [i \in 0 .. len - 1 |-> 0]

Len0(arr) == Cardinality(DOMAIN arr)

\* arr[idx]; an index outside the array reads undefined, which is NaN in
\* arithmetic
Read(arr, idx) == IF idx \in DOMAIN arr THEN arr[idx] ELSE NaN

\* arr[idx] = v; a typed array ignores a write outside its bounds
Write(arr, idx, v) == IF idx \in DOMAIN arr THEN [arr EXCEPT ![idx] = v] ELSE arr

\* ------------------------------------------------- trigonometric tables

\* round(One * cos(2*pi*num/den)) for the angles the modelled sizes use
CosTurn(num, den) ==
  LET r == IF den = 0 THEN 0 ELSE ((num % den) * 8) \div den
      exact == den # 0 /\ ((num % den) * 8) % den = 0
  IN  IF den = 0 THEN NaN
      ELSE IF exact
      THEN CASE r = 0 -> One
             [] r = 1 -> 2896
             [] r = 2 -> 0
             [] r = 3 -> -2896
             [] r = 4 -> 0 - One
             [] r = 5 -> -2896
             [] r = 6 -> 0
             [] r = 7 -> 2896
      ELSE IF den = 3 THEN 0 - (One \div 2)
      ELSE NaN

\* round(One * sin(2*pi*num/den))
SinTurn(num, den) ==
  LET r == IF den = 0 THEN 0 ELSE ((num % den) * 8) \div den
      exact == den # 0 /\ ((num % den) * 8) % den = 0
  IN  IF den = 0 THEN NaN
      ELSE IF exact
      THEN CASE r = 0 -> 0
             [] r = 1 -> 2896
             [] r = 2 -> One
             [] r = 3 -> 2896
             [] r = 4 -> 0
             [] r = 5 -> -2896
             [] r = 6 -> 0 - One
             [] r = 7 -> -2896
      ELSE IF den = 3 THEN (IF num % 3 = 1 THEN 3547 ELSE -3547)
      ELSE NaN

\* floor(log2(n)) for n >= 1: the number of stages `s <= this.m` admits
RECURSIVE Log2Floor(_)
Log2Floor(n) == IF n <= 1 THEN 0 ELSE 1 + Log2Floor(n \div 2)

\* the length Float32Array gives a fractional size: n/2 truncated
HalfLen(n) == n \div 2

\* FFT.constructor: the plan for size n
FFTPlan(n) ==
  [n |-> n,
   m |-> Log2Floor(n),
   cos |-> [i \in 0 .. HalfLen(n) - 1 |-> CosTurn(i, n)],
   sin |-> [i \in 0 .. HalfLen(n) - 1 |-> SinTurn(i, n)]]

\* ------------------------------------------------------------ FFT.forward

\* mutant: the inner loop tests `k < j`
RECURSIVE NextPartnerStrict(_, _)
NextPartnerStrict(j, k) ==
  IF k < j
  THEN IF k = 0 THEN -1 ELSE NextPartnerStrict(j - k, k \div 2)
  ELSE j + k

\* the inner `while (k <= j) { j -= k; k >>= 1; }` followed by `j += k`:
\* the next running partner, or -1 when the loop cannot end (k has reached 0
\* with k <= j, so neither j nor k changes any more)
RECURSIVE NextPartner(_, _)
NextPartner(j, k) ==
  IF k <= j
  THEN IF k = 0 THEN -1 ELSE NextPartner(j - k, k \div 2)
  ELSE j + k

\* the swap of (real[i], imag[i]) with (real[j], imag[j])
SwapPair(st, i, j) ==
  [real |-> Write(Write(st.real, i, Read(st.real, j)), j, Read(st.real, i)),
   imag |-> Write(Write(st.imag, i, Read(st.imag, j)), j, Read(st.imag, i)),
   hang |-> st.hang]

\* the first loop of forward, from iteration i with running partner j
RECURSIVE BitReverseLoop(_, _, _, _)
BitReverseLoop(st, i, j, n) ==
  IF i >= n - 1 THEN st
  ELSE LET swapped == IF i < j THEN SwapPair(st, i, j) ELSE st
           nj == NextPartner(j, n \div 2)
       IN  IF nj = -1 THEN [swapped EXCEPT !.hang = TRUE]
           ELSE BitReverseLoop(swapped, i + 1, nj, n)

\* mutant: the lower output of the butterfly is taken the other way round,
\* t - x[k] in place of x[k] - t
ButterflyReversedDifference(st, k, m2, wr, wi) ==
  LET xr == Read(st.real, k + m2)
      xi == Read(st.imag, k + m2)
      tr == Sub(Mul(wr, xr), Mul(wi, xi))
      ti == Add(Mul(wr, xi), Mul(wi, xr))
      r1 == Write(st.real, k + m2, Sub(tr, Read(st.real, k)))
      i1 == Write(st.imag, k + m2, Sub(ti, Read(st.imag, k)))
  IN  [real |-> Write(r1, k, Add(Read(r1, k), tr)),
       imag |-> Write(i1, k, Add(Read(i1, k), ti)),
       hang |-> st.hang]

\* one butterfly on the pair (k, k + m2) with twiddle (wr, wi)
Butterfly(st, k, m2, wr, wi) ==
  LET xr == Read(st.real, k + m2)
      xi == Read(st.imag, k + m2)
      tr == Sub(Mul(wr, xr), Mul(wi, xi))
      ti == Add(Mul(wr, xi), Mul(wi, xr))
      r1 == Write(st.real, k + m2, Sub(Read(st.real, k), tr))
      i1 == Write(st.imag, k + m2, Sub(Read(st.imag, k), ti))
  IN  [real |-> Write(r1, k, Add(Read(r1, k), tr)),
       imag |-> Write(i1, k, Add(Read(i1, k), ti)),
       hang |-> st.hang]

\* `for (let k = j; k < this.n; k += m)`
RECURSIVE ButterflyK(_, _, _, _, _, _, _)
ButterflyK(st, k, m, m2, wr, wi, n) ==
  IF k >= n THEN st
  ELSE ButterflyK(Butterfly(st, k, m2, wr, wi), k + m, m, m2, wr, wi, n)

\* the table entry cos[j * (n / m)]; a fractional index reads undefined
TwiddleIndex(j, n, m) == IF n % m = 0 THEN j * (n \div m) ELSE -1

\* `for (let j = 0; j < m2; j++)`
RECURSIVE ButterflyJ(_, _, _, _, _)
ButterflyJ(st, j, m, m2, plan) ==
  IF j >= m2 THEN st
  ELSE LET wr == Read(plan.cos, TwiddleIndex(j, plan.n, m))
           wi == Neg(Read(plan.sin, TwiddleIndex(j, plan.n, m)))
       IN  ButterflyJ(ButterflyK(st, j, m, m2, wr, wi, plan.n), j + 1, m, m2, plan)

\* `for (let s = 1; s <= this.m; s++)`
RECURSIVE ButterflyStages(_, _, _)
ButterflyStages(st, s, plan) ==
  IF s > plan.m THEN st
  ELSE ButterflyStages(ButterflyJ(st, 0, 2^s, 2^(s - 1), plan), s + 1, plan)

\* FFT.forward on the buffers (real, imag): the transformed buffers, or
\* hang = TRUE when the bit-reversal loop never ends (the buffers are then
\* those at the moment the loop stops making progress)
Forward(plan, real, imag) ==
  LET st0 == [real |-> real, imag |-> imag, hang |-> FALSE]
      st1 == BitReverseLoop(st0, 0, 0, plan.n)
  IN  IF st1.hang THEN st1 ELSE ButterflyStages(st1, 1, plan)

\* `real[i] /= this.n`
ScaleReal(v, n) == DivInt(v, n)

\* mutant: the imaginary part is scaled by 1/n, the conjugation is not undone
ScaleImagUnsigned(v, n) == DivInt(v, n)

\* `imag[i] /= -this.n`
ScaleImag(v, n) == DivInt(v, 0 - n)

\* FFT.inverse: conjugate, forward, scale
Inverse(plan, real, imag) ==
  LET conj == [i \in DOMAIN imag |-> IF i < plan.n THEN Neg(imag[i]) ELSE imag[i]]
      fw == Forward(plan, real, conj)
  IN  IF fw.hang THEN fw
      ELSE [real |-> [i \in DOMAIN fw.real |->
                        IF i < plan.n THEN ScaleReal(fw.real[i], plan.n)
                        ELSE fw.real[i]],
            imag |-> [i \in DOMAIN fw.imag |->
                        IF i < plan.n THEN ScaleImag(fw.imag[i], plan.n)
                        ELSE fw.imag[i]],
            hang |-> FALSE]

\* ------------------------------------------------- window and mel utilities

\* hanningWindow(n): w[i] = 0.5 * (1 - cos(2*pi*i/(n-1)))
hanningWindow(n) ==
  [i \in 0 .. n - 1 |-> Mul(One \div 2, Sub(One, CosTurn(i, n - 1)))]

\* Mel boundary point i of q = melBinsCount + 1 equal mel steps between 0 Hz
\* and Nyquist is hz_i = 700 * ((1 + maxHz/700)^(i/q) - 1)  (hzToMel, melToHz).
\* Sample rates are 1400 * s Hz, so that 1 + maxHz/700 = 1 + s, and the bin
\* floor((n+1) * hz_i / sampleRate) is at least k exactly when
\*   (1+s)^i * (n+1)^q >= (n + 1 + 2*k*s)^q.
RateStep == 2 * 700

BinAtLeast(i, q, n, sampleRate, k) ==
  LET s == sampleRate \div RateStep
  IN  (1 + s)^i * (n + 1)^q >= (n + 1 + 2 * k * s)^q

\* mutant: the bin is rounded to the nearest integer, not floored
BinPointNearest(i, melBinsCount, n, sampleRate) ==
  LET s == sampleRate \div RateStep
      q == melBinsCount + 1
  IN  Cardinality({k \in 1 .. (n \div 2) + 1 :
                     (1 + s)^i * (n + 1)^q >= (n + 1 + (2 * k - 1) * s)^q})

\* binPoints[i] = floor(((windowSize + 1) * melPoints[i]) / sampleRate)
BinPoint(i, melBinsCount, n, sampleRate) ==
  Cardinality({k \in 1 .. (n \div 2) + 1 :
                 BinAtLeast(i, melBinsCount + 1, n, sampleRate, k)})

BinPoints(melBinsCount, n, sampleRate) ==
  [i \in 0 .. melBinsCount + 1 |-> BinPoint(i, melBinsCount, n, sampleRate)]

\* the weight the rising loop stores at bin j
RisingWeight(j, b0, b1) == Div((j - b0) * One, (b1 - b0) * One)

\* mutant: the falling slope is one bin too long, (b2 - j) / (b2 - b1 + 1)
FallingWeightLongSlope(j, b1, b2) == Div((b2 - j) * One, (b2 - b1 + 1) * One)

\* the weight the falling loop stores at bin j
FallingWeight(j, b1, b2) == Div((b2 - j) * One, (b2 - b1) * One)

\* the length of `new Float32Array(windowSize / 2 + 1)`
FilterLen(n) == n \div 2 + 1

\* mutant: both loops run to their upper bin inclusive (`j <= ...`), so a
\* zero-width segment stores 0/0
BuildFilterInclusive(i, bins, n) ==
  LET b0 == bins[i]
      b1 == bins[i + 1]
      b2 == bins[i + 2]
  IN  [j \in 0 .. FilterLen(n) - 1 |->
         IF j >= b1 /\ j <= b2
         THEN IF b2 = b1 THEN NaN ELSE FallingWeight(j, b1, b2)
         ELSE IF j >= b0 /\ j <= b1
         THEN IF b1 = b0 THEN NaN ELSE RisingWeight(j, b0, b1)
         ELSE 0]

\* filter i of the filterbank: the rising loop over [b0, b1), then the
\* falling loop over [b1, b2), on a zeroed array
BuildFilter(i, bins, n) ==
  LET b0 == bins[i]
      b1 == bins[i + 1]
      b2 == bins[i + 2]
  IN  [j \in 0 .. FilterLen(n) - 1 |->
         IF j >= b1 /\ j < b2 THEN FallingWeight(j, b1, b2)
         ELSE IF j >= b0 /\ j < b1 THEN RisingWeight(j, b0, b1)
         ELSE 0]

\* Array.from({length: melBinsCount}, ...): a JS array, here a sequence
Filterbank(melBinsCount, n, sampleRate) ==
  LET bins == BinPoints(melBinsCount, n, sampleRate)
  IN  [i \in 1 .. melBinsCount |-> BuildFilter(i - 1, bins, n)]

\* floor(sqrt(v)) for an integer v >= 0
RECURSIVE ISqrtIn(_, _, _)
ISqrtIn(v, lo, hi) ==
  IF lo >= hi THEN lo
  ELSE LET mid == (lo + hi + 1) \div 2
       IN  IF mid * mid <= v THEN ISqrtIn(v, mid, hi) ELSE ISqrtIn(v, lo, mid - 1)

\* Math.sqrt(re*re + im*im) in fixed point
Magnitude(re, im) ==
  LET sq == Add(Mul(re, re), Mul(im, im))
  IN  IF IsNaN(sq) THEN NaN ELSE ISqrtIn(sq * One, 0, 2^15)

\* sum over i of magnitudes[i] * filter[i]
RECURSIVE MelSum(_, _, _)
MelSum(magnitudes, filter, i) ==
  IF i >= Len0(magnitudes) THEN 0
  ELSE Add(Mul(magnitudes[i], Read(filter, i)), MelSum(magnitudes, filter, i + 1))

\* Math.max(1e-10, sum): the argument of the logarithm.  1e-10 is below the
\* fixed-point resolution; Math.max returns NaN for a NaN argument.  The
\* strictly monotone 20 * log10 is left unapplied.
MelLevel(sum) == IF IsNaN(sum) THEN NaN ELSE IF sum > 0 THEN sum ELSE 0

\* ------------------------------------------------------------------ state

VARIABLES
  call,           \* the exported function invoked on the inputs
  data,           \* audioBuffer.getChannelData(0): the caller's samples
  sampleRate,     \* audioBuffer.sampleRate
  windowSize,
  hopSize,
  melBinsCount,
  annotations,    \* the mask intervals {x, width}, in units of 1/AnnGrid
  pc,             \* "entry", "frames", "returned" or "hung"
  numFrames,      \* Math.floor((data.length - windowSize) / hopSize)
  f,              \* the frame loop's counter
  reconstructed,  \* the overlap-add accumulator
  norm,           \* the accumulated squared window
  filterbank,     \* computeSpectrogram's triangular filters
  spectrogram,    \* the rows pushed so far
  lastFrame,      \* <<>> or <<r>>: what the latest reconstruction frame did
  result,         \* the values returned so far, one per finished call
  fft,            \* the buffers of a stand-alone FFT round trip
  mel,            \* a filterbank under construction, filter by filter
  app             \* the state of the App component, its refs and its timers

pipeVars ==
  <<call, data, sampleRate, windowSize, hopSize, melBinsCount, annotations, pc,
    numFrames, f, reconstructed, norm, filterbank, spectrogram, lastFrame, result>>

vars == <<pipeVars, fft, mel, app>>

\* ----------------------------------------------------------------- bounds

\* the longest signal
MaxLen == 7

\* the most mask intervals in a list
MaxAnn == 1

\* the most mel bins
MaxMel == 3

\* iterations of a frame loop that never ends, after which the model stops
\* following it
MaxSpin == 3

\* interval ends are multiples of 1/AnnGrid of the signal's duration
AnnGrid == 2 * 2

WindowSizes == {2, 3, 4}

HopSizes == {-1, 0, 1, 2}

SampleRates == {RateStep, 3 * RateStep}

\* The pipeline is linear in the samples and its control flow does not read
\* them: each length is exercised with a ramp of distinct values, a signal of
\* alternating sign and an impulse in the middle.
Ramp(len) == [i \in 0 .. len - 1 |-> (i + 1) * (One \div 8)]

Alternating(len) ==
  [i \in 0 .. len - 1 |-> IF i % 2 = 0 THEN One \div 2 ELSE 0 - (One \div 2)]

Impulse(len) == [i \in 0 .. len - 1 |-> IF i = len \div 2 THEN One ELSE 0]

Signals == UNION {{Ramp(len), Alternating(len), Impulse(len)} : len \in 1 .. MaxLen}

\* AnnotationLayer adds an interval only when width > 0.001; both of its ends
\* are positions inside the layer
Intervals ==
  {iv \in [x : 0 .. AnnGrid, width : 1 .. AnnGrid] : iv.x + iv.width <= AnnGrid}

RECURSIVE SeqsUpTo(_, _)
SeqsUpTo(S, k) ==
  IF k = 0 THEN {<<>>}
  ELSE LET shorter == SeqsUpTo(S, k - 1)
       IN  shorter \cup {Append(q, e) : q \in {t \in shorter : Len(t) = k - 1}, e \in S}

AnnotationLists == SeqsUpTo(Intervals, MaxAnn)

\* --------------------------------------------------------------- framing

\* mutant: the frames are counted as for a zero-padded signal, floor(len / h)
NumFramesPadded(len, n, h) ==
  IF h > 0 THEN [kind |-> "finite", v |-> len \div h]
  ELSE IF h < 0 THEN [kind |-> "finite", v |-> (0 - len) \div (0 - h)]
  ELSE IF len > n THEN [kind |-> "inf", v |-> 0]
  ELSE IF len < n THEN [kind |-> "-inf", v |-> 0]
  ELSE [kind |-> "nan", v |-> 0]

\* mutant: the final frame is counted too, floor((len - n) / h) + 1
NumFramesInclusive(len, n, h) ==
  IF h > 0 THEN [kind |-> "finite", v |-> (len - n) \div h + 1]
  ELSE IF h < 0 THEN [kind |-> "finite", v |-> (n - len) \div (0 - h) + 1]
  ELSE IF len > n THEN [kind |-> "inf", v |-> 0]
  ELSE IF len < n THEN [kind |-> "-inf", v |-> 0]
  ELSE [kind |-> "nan", v |-> 0]

\* Math.floor((len - n) / h) as a double: h = 0 gives +Infinity, -Infinity or
\* NaN (0/0)
NumFrames(len, n, h) ==
  IF h > 0 THEN [kind |-> "finite", v |-> (len - n) \div h]
  ELSE IF h < 0 THEN [kind |-> "finite", v |-> (n - len) \div (0 - h)]
  ELSE IF len > n THEN [kind |-> "inf", v |-> 0]
  ELSE IF len < n THEN [kind |-> "-inf", v |-> 0]
  ELSE [kind |-> "nan", v |-> 0]

\* the loop test `f < numFrames`
FrameLoopContinues(i, nf) ==
  \/ nf.kind = "inf"
  \/ nf.kind = "finite" /\ i < nf.v

\* the length Array.from({length: numFrames}) gives: ToLength clamps a
\* negative or NaN length to 0 (an infinite one cannot be reached: the frame
\* loop before it never ends)
ArrayLength(nf) == IF nf.kind = "finite" /\ nf.v > 0 THEN nf.v ELSE 0

\* frame[i] = data[start + i] * window[i]
WindowedFrame(samples, start, n) ==
  LET window == hanningWindow(n)
  IN  [i \in 0 .. n - 1 |-> Mul(Read(samples, start + i), window[i])]

\* `timePos >= ann.x && timePos <= ann.x + ann.width` with timePos = i / nf,
\* compared exactly; i / Infinity is 0
InInterval(i, nf, ann) ==
  IF nf.kind = "inf"
  THEN 0 >= ann.x /\ 0 <= ann.x + ann.width
  ELSE i * AnnGrid >= ann.x * nf.v /\ i * AnnGrid <= (ann.x + ann.width) * nf.v

\* the scan of the annotation list that sets isTimeMasked
IsTimeMasked(i, nf, anns) ==
  \E a \in 1 .. Len(anns) : InInterval(i, nf, anns[a])

\* mutant: only the real part is cleared
MaskFrameRealOnly(spectrum) ==
  [real |-> [i \in DOMAIN spectrum.real |-> 0],
   imag |-> spectrum.imag]

\* `frameReal.fill(0); frameImag.fill(0)`
MaskFrame(spectrum) ==
  [real |-> [i \in DOMAIN spectrum.real |-> 0],
   imag |-> [i \in DOMAIN spectrum.imag |-> 0]]

\* the value frame i adds to reconstructed[start + i]
Contribution(frameReal, n) ==
  LET window == hanningWindow(n)
  IN  [i \in 0 .. n - 1 |-> Mul(frameReal[i], window[i])]

\* arr[start + i] += added[i] for i in 0 .. n-1
RECURSIVE OverlapAdd(_, _, _, _, _)
OverlapAdd(arr, added, start, i, n) ==
  IF i >= n THEN arr
  ELSE OverlapAdd(Write(arr, start + i, Add(Read(arr, start + i), added[i])),
                  added, start, i + 1, n)

\* window[i] * window[i]
WindowEnergy(n) ==
  LET window == hanningWindow(n)
  IN  [i \in 0 .. n - 1 |-> Mul(window[i], window[i])]

\* the guard of the normalisation, `norm[i] > 1e-10`: 1e-10 is below one
\* fixed-point unit, and a comparison with NaN is false
NormEpsilon == 0

AboveEpsilon(v) == ~IsNaN(v) /\ v > NormEpsilon

\* mutant: the threshold is 1, not 1e-10
NormalizeAboveOne(acc, energy) ==
  [i \in DOMAIN acc |->
     IF ~IsNaN(energy[i]) /\ energy[i] > One THEN Div(acc[i], energy[i]) ELSE acc[i]]

\* `if (norm[i] > 1e-10) reconstructed[i] /= norm[i]`
Normalize(acc, energy) ==
  [i \in DOMAIN acc |-> IF AboveEpsilon(energy[i]) THEN Div(acc[i], energy[i]) ELSE acc[i]]

\* ------------------------------------------------- applyMaskAndReconstruct

NoFFT == [phase |-> "idle"]

NoMel == [phase |-> "idle"]

NoApp == [phase |-> "unmounted"]

\* mutant: the accumulator outlives the call and is not cleared on entry
ReconstructEnterReusingAccumulator ==
  /\ pc = "entry"
  /\ call = "applyMaskAndReconstruct"
  /\ numFrames' = NumFrames(Len0(data), windowSize, hopSize)
  /\ reconstructed' = IF reconstructed = <<>> THEN Zeros(Len0(data)) ELSE reconstructed
  /\ norm' = Zeros(Len0(data))
  /\ f' = 0
  /\ pc' = "frames"
  /\ UNCHANGED <<call, data, sampleRate, windowSize, hopSize, melBinsCount,
                 annotations, filterbank, spectrogram, lastFrame, result, fft, mel, app>>

\* lines 156-163: the buffers and the frame count
ReconstructEnter ==
  /\ pc = "entry"
  /\ call = "applyMaskAndReconstruct"
  /\ numFrames' = NumFrames(Len0(data), windowSize, hopSize)
  /\ reconstructed' = Zeros(Len0(data))
  /\ norm' = Zeros(Len0(data))
  /\ f' = 0
  /\ pc' = "frames"
  /\ UNCHANGED <<call, data, sampleRate, windowSize, hopSize, melBinsCount,
                 annotations, filterbank, spectrogram, lastFrame, result, fft, mel, app>>

\* the spectrum handed to fft.inverse
PassedToInverse(masked, spectrum) ==
  IF masked THEN MaskFrame(spectrum)
  ELSE [real |-> spectrum.real, imag |-> spectrum.imag]

\* lines 165-199: one iteration of the frame loop
ReconstructFrame ==
  /\ pc = "frames"
  /\ call = "applyMaskAndReconstruct"
  /\ FrameLoopContinues(f, numFrames)
  /\ numFrames.kind = "inf" => f < MaxSpin
  /\ LET start == f * hopSize
         plan == FFTPlan(windowSize)
         spectrum == Forward(plan, WindowedFrame(data, start, windowSize),
                             Zeros(windowSize))
         masked == IsTimeMasked(f, numFrames, annotations)
         passed == PassedToInverse(masked, spectrum)
         inv == Inverse(plan, passed.real, passed.imag)
         added == Contribution(inv.real, windowSize)
     IN  IF spectrum.hang
         THEN /\ pc' = "hung"
              /\ lastFrame' = <<[f |-> f, start |-> start, hang |-> TRUE]>>
              /\ UNCHANGED <<f, reconstructed, norm>>
         ELSE /\ pc' = "frames"
              /\ f' = f + 1
              /\ reconstructed' = OverlapAdd(reconstructed, added, start, 0, windowSize)
              /\ norm' = OverlapAdd(norm, WindowEnergy(windowSize), start, 0, windowSize)
              /\ lastFrame' = <<[f |-> f, start |-> start, hang |-> FALSE,
                                 masked |-> masked,
                                 spectrum |-> [real |-> spectrum.real,
                                               imag |-> spectrum.imag],
                                 passed |-> passed,
                                 added |-> added]>>
  /\ UNCHANGED <<call, data, sampleRate, windowSize, hopSize, melBinsCount,
                 annotations, numFrames, filterbank, spectrogram, result, fft, mel, app>>

\* mutant: the buffer is created at the audio context's own rate, not the
\* recording's
NewBufferContextRate(samples, rate) ==
  [numberOfChannels |-> 1, length |-> Len0(samples), sampleRate |-> 44100,
   channel |-> samples]

\* ctx.createBuffer(1, reconstructed.length, sampleRate) and copyToChannel
NewBuffer(samples, rate) ==
  [numberOfChannels |-> 1, length |-> Len0(samples), sampleRate |-> rate,
   channel |-> samples]

\* lines 201-207: the normalisation pass and the returned buffer
ReconstructReturn ==
  /\ pc = "frames"
  /\ call = "applyMaskAndReconstruct"
  /\ ~FrameLoopContinues(f, numFrames)
  /\ reconstructed' = Normalize(reconstructed, norm)
  /\ result' = Append(result, NewBuffer(reconstructed', sampleRate))
  /\ pc' = "returned"
  /\ UNCHANGED <<call, data, sampleRate, windowSize, hopSize, melBinsCount,
                 annotations, numFrames, f, norm, filterbank, spectrogram,
                 lastFrame, fft, mel, app>>

\* ------------------------------------------------------ computeSpectrogram

\* melPoints[i], kept as its position on the mel axis: step i of `steps`
\* equal mel steps between 0 Hz and maxHz
MelPoint(i, bins, rate) == [step |-> i, steps |-> bins + 1, maxHz |-> rate \div 2]

\* lines 85-113: the frame count and the filterbank
SpectrogramEnter ==
  /\ pc = "entry"
  /\ call = "computeSpectrogram"
  /\ numFrames' = NumFrames(Len0(data), windowSize, hopSize)
  /\ filterbank' = Filterbank(melBinsCount, windowSize, sampleRate)
  /\ spectrogram' = <<>>
  /\ f' = 0
  /\ pc' = "frames"
  /\ UNCHANGED <<call, data, sampleRate, windowSize, hopSize, melBinsCount,
                 annotations, reconstructed, norm, lastFrame, result, fft, mel, app>>

\* lines 126-137: the mel row of one spectrum
MelFrame(spectrum, bank, n) ==
  LET magnitudes == [i \in 0 .. FilterLen(n) - 1 |->
                       Magnitude(Read(spectrum.real, i), Read(spectrum.imag, i))]
  IN  [k \in 1 .. Len(bank) |-> MelLevel(MelSum(magnitudes, bank[k], 0))]

\* lines 115-140: one iteration of the frame loop
SpectrogramFrame ==
  /\ pc = "frames"
  /\ call = "computeSpectrogram"
  /\ FrameLoopContinues(f, numFrames)
  /\ numFrames.kind = "inf" => f < MaxSpin
  /\ LET start == f * hopSize
         spectrum == Forward(FFTPlan(windowSize),
                             WindowedFrame(data, start, windowSize),
                             Zeros(windowSize))
     IN  IF spectrum.hang
         THEN /\ pc' = "hung"
              /\ UNCHANGED <<f, spectrogram>>
         ELSE /\ pc' = "frames"
              /\ f' = f + 1
              /\ spectrogram' =
                   Append(spectrogram, MelFrame(spectrum, filterbank, windowSize))
  /\ UNCHANGED <<call, data, sampleRate, windowSize, hopSize, melBinsCount,
                 annotations, numFrames, reconstructed, norm, filterbank,
                 lastFrame, result, fft, mel, app>>

\* times[i] = (i * hopSize) / sampleRate, kept as the fraction it divides
FrameTime(i, hop, rate) == [num |-> i * hop, den |-> rate]

\* lines 142-146: the returned object
SpectrogramReturn ==
  /\ pc = "frames"
  /\ call = "computeSpectrogram"
  /\ ~FrameLoopContinues(f, numFrames)
  /\ result' = Append(result,
                      [spectrogram |-> spectrogram,
                       frequencies |-> [k \in 1 .. melBinsCount |->
                                          MelPoint(k, melBinsCount, sampleRate)],
                       times |-> [i \in 1 .. ArrayLength(numFrames) |->
                                    FrameTime(i - 1, hopSize, sampleRate)]])
  /\ pc' = "returned"
  /\ UNCHANGED <<call, data, sampleRate, windowSize, hopSize, melBinsCount,
                 annotations, numFrames, f, reconstructed, norm, filterbank,
                 spectrogram, lastFrame, fft, mel, app>>

\* ------------------------------------------------------ the pipeline runs

\* the default melBinsCount, which applyMaskAndReconstruct never reads
DefaultMelBins == 128

Init ==
  /\ call \in {"computeSpectrogram", "applyMaskAndReconstruct"}
  /\ data \in Signals
  /\ sampleRate \in SampleRates
  /\ windowSize \in WindowSizes
  /\ hopSize \in HopSizes
  /\ melBinsCount \in IF call = "computeSpectrogram" THEN 1 .. MaxMel
                      ELSE {DefaultMelBins}
  /\ annotations \in IF call = "applyMaskAndReconstruct" THEN AnnotationLists
                     ELSE {<<>>}
  /\ pc = "entry"
  /\ numFrames = [kind |-> "nan", v |-> 0]
  /\ f = 0
  /\ reconstructed = <<>>
  /\ norm = <<>>
  /\ filterbank = <<>>
  /\ spectrogram = <<>>
  /\ lastFrame = <<>>
  /\ result = <<>>
  /\ fft = NoFFT
  /\ mel = NoMel
  /\ app = NoApp

Next ==
  \/ ReconstructEnter
  \/ ReconstructFrame
  \/ ReconstructReturn
  \/ SpectrogramEnter
  \/ SpectrogramFrame
  \/ SpectrogramReturn

Spec == Init /\ [][Next]_vars

\* -------------------------------------------- the same call, a second time

\* The caller calls the function again with the arguments of the call that
\* has returned (handleTogglePlay reconstructs again whenever the cached
\* buffer was dropped). The locals of the finished call are garbage; the new
\* call's entry allocates its own.
CallAgain ==
  /\ pc = "returned"
  /\ Len(result) = 1
  /\ pc' = "entry"
  /\ UNCHANGED <<call, data, sampleRate, windowSize, hopSize, melBinsCount,
                 annotations, numFrames, f, reconstructed, norm, filterbank,
                 spectrogram, lastFrame, result, fft, mel, app>>

NextTwice == Next \/ CallAgain

SpecTwice == Init /\ [][NextTwice]_vars

\* the pipeline variables of a run that calls neither exported function
PipelineIdle ==
  /\ call = "none"
  /\ data = <<>>
  /\ sampleRate = RateStep
  /\ windowSize = 2
  /\ hopSize = 1
  /\ melBinsCount = DefaultMelBins
  /\ annotations = <<>>
  /\ pc = "idle"
  /\ numFrames = [kind |-> "nan", v |-> 0]
  /\ f = 0
  /\ reconstructed = <<>>
  /\ norm = <<>>
  /\ filterbank = <<>>
  /\ spectrogram = <<>>
  /\ lastFrame = <<>>
  /\ result = <<>>

\* ------------------------------------------------ FFT on its own buffers

FFTValues == {0 - One, 0, One \div 2}

\* the unit impulse at index p
UnitImpulse(n, p) == [i \in 0 .. n - 1 |-> IF i = p THEN One ELSE 0]

\* All buffers over FFTValues for the sizes with exact twiddle factors; for
\* n = 8 the impulses, which span every buffer (the transform is linear).
FFTInputs ==
  {[n |-> n, real |-> re, imag |-> im] :
     n \in {2}, re \in [0 .. 1 -> FFTValues], im \in [0 .. 1 -> FFTValues]}
  \cup
  {[n |-> n, real |-> re, imag |-> im] :
     n \in {4}, re \in [0 .. 3 -> FFTValues], im \in [0 .. 3 -> FFTValues]}
  \cup
  {[n |-> n, real |-> UnitImpulse(n, p), imag |-> Zeros(n)] : n \in {8}, p \in 0 .. 7}
  \cup
  {[n |-> n, real |-> Zeros(n), imag |-> UnitImpulse(n, p)] : n \in {8}, p \in 0 .. 7}

InitFFT ==
  /\ PipelineIdle
  /\ mel = NoMel
  /\ app = NoApp
  /\ \E in \in FFTInputs :
       fft = [phase |-> "input", n |-> in.n, real |-> in.real, imag |-> in.imag,
              origReal |-> in.real, origImag |-> in.imag]

\* fft.forward(real, imag) on the buffers
FFTForward ==
  /\ fft.phase = "input"
  /\ LET out == Forward(FFTPlan(fft.n), fft.real, fft.imag)
     IN  fft' = [fft EXCEPT !.phase = "forward", !.real = out.real, !.imag = out.imag]
  /\ UNCHANGED <<pipeVars, mel, app>>

\* fft.inverse(real, imag) on the transformed buffers
FFTInverse ==
  /\ fft.phase = "forward"
  /\ LET out == Inverse(FFTPlan(fft.n), fft.real, fft.imag)
     IN  fft' = [fft EXCEPT !.phase = "inverted", !.real = out.real, !.imag = out.imag]
  /\ UNCHANGED <<pipeVars, mel, app>>

NextFFT == FFTForward \/ FFTInverse

SpecFFT == InitFFT /\ [][NextFFT]_vars

\* ------------------------- the first loop of forward, iteration by iteration

\* sizes of the plan: powers of two, and two sizes that are none
BitRevSizes == {2, 3, 4, 6, 8, 16}

\* buffers to permute: distinct samples in the real part, in the imaginary
\* part, or in both
BitRevInputs ==
  UNION {{[n |-> n, real |-> Ramp(n), imag |-> Zeros(n)],
          [n |-> n, real |-> Alternating(n), imag |-> Ramp(n)],
          [n |-> n, real |-> Ramp(n), imag |-> [i \in 0 .. n - 1 |-> 0 - Ramp(n)[i]]]} :
         n \in BitRevSizes}

InitBitRev ==
  /\ PipelineIdle
  /\ mel = NoMel
  /\ app = NoApp
  /\ \E in \in BitRevInputs :
       fft = [phase |-> "bitrev", n |-> in.n, i |-> 0, j |-> 0,
              real |-> in.real, imag |-> in.imag,
              origReal |-> in.real, origImag |-> in.imag, swaps |-> <<>>]

\* lines 23-38: one iteration of `for (let i = 0; i < this.n - 1; i++)`;
\* swaps records the pairs exchanged
BitRevStep ==
  /\ fft.phase = "bitrev"
  /\ fft.i < fft.n - 1
  /\ LET st == [real |-> fft.real, imag |-> fft.imag, hang |-> FALSE]
         swapped == IF fft.i < fft.j THEN SwapPair(st, fft.i, fft.j) ELSE st
         done == IF fft.i < fft.j THEN Append(fft.swaps, <<fft.i, fft.j>>) ELSE fft.swaps
         nj == NextPartner(fft.j, fft.n \div 2)
     IN  fft' = IF nj = -1
                THEN [fft EXCEPT !.phase = "hung", !.real = swapped.real,
                                 !.imag = swapped.imag, !.swaps = done]
                ELSE [fft EXCEPT !.i = fft.i + 1, !.j = nj, !.real = swapped.real,
                                 !.imag = swapped.imag, !.swaps = done]
  /\ UNCHANGED <<pipeVars, mel, app>>

\* the loop test fails: the butterfly stages follow
BitRevDone ==
  /\ fft.phase = "bitrev"
  /\ fft.i >= fft.n - 1
  /\ fft' = [fft EXCEPT !.phase = "permuted"]
  /\ UNCHANGED <<pipeVars, mel, app>>

NextBitRev == BitRevStep \/ BitRevDone

SpecBitRev == InitBitRev /\ [][NextBitRev]_vars

\* ------------------------------------- the filterbank, filter by filter

MelWindowSizes == {2, 4, 8, 16}

MelRates == {RateStep, 2 * RateStep, 3 * RateStep}

InitMel ==
  /\ PipelineIdle
  /\ fft = NoFFT
  /\ app = NoApp
  /\ \E n \in MelWindowSizes, rate \in MelRates, bins \in 1 .. MaxMel :
       mel = [phase |-> "entry", windowSize |-> n, sampleRate |-> rate,
              melBinsCount |-> bins, binPoints |-> <<>>, filterbank |-> <<>>]

\* lines 93-103: the boundary bins
MelBinPoints ==
  /\ mel.phase = "entry"
  /\ mel' = [mel EXCEPT !.phase = "filters",
                        !.binPoints = BinPoints(mel.melBinsCount, mel.windowSize,
                                                mel.sampleRate)]
  /\ UNCHANGED <<pipeVars, fft, app>>

\* lines 104-113: the callback of Array.from for the next filter
MelBuildFilter ==
  /\ mel.phase = "filters"
  /\ Len(mel.filterbank) < mel.melBinsCount
  /\ mel' = [mel EXCEPT !.filterbank =
               Append(mel.filterbank,
                      BuildFilter(Len(mel.filterbank), mel.binPoints, mel.windowSize))]
  /\ UNCHANGED <<pipeVars, fft, app>>

NextMel == MelBinPoints \/ MelBuildFilter

SpecMel == InitMel /\ [][NextMel]_vars

\* ============================================================== the App
\*
\* The App component: its React state, its refs, the AudioBufferSourceNodes
\* it has started and the recordings it has begun.  A handler runs to
\* completion on the state of the latest render; the state updates it queues
\* and the effects they trigger are applied before the next event is handled.

\* invocations of startRecording: a recording and the one that follows or
\* overlaps it
MaxRecordings == 1 + 1

\* AudioBufferSourceNodes created
MaxSources == 2

\* The model follows a timer until its MediaRecorder has received stop()
\* once more than the single call a recording needs.
StopsFollowed == 1 + 1

Labels == {"", "click"}

\* the AudioBuffer decoded from the recording of invocation i
Decoded(i) == [recording |-> i, masked |-> <<>>]

\* the AudioBuffer applyMaskAndReconstruct returns: a function of the buffer
\* and of the annotation list it is given
Reconstructed(buffer, anns) == [recording |-> buffer.recording, masked |-> <<anns>>]

InitApp ==
  /\ PipelineIdle
  /\ fft = NoFFT
  /\ mel = NoMel
  /\ app = [phase |-> "mounted",
            isRecording |-> FALSE,
            annotations |-> <<>>,
            audioState |-> <<>>,
            isPlaying |-> FALSE,
            isPlayingRef |-> FALSE,
            isFiltered |-> FALSE,
            sourceNodeRef |-> 0,
            sources |-> <<>>,
            recordings |-> <<>>,
            recordingTimerRef |-> 0]

\* mutant: the effect leaves the cached buffer in place
KeepFiltered(audioState) == audioState

\* useEffect([annotations]), lines 277-281
DropFiltered(audioState) ==
  IF audioState # <<>>
  THEN <<[audioState[1] EXCEPT !.filteredBuffer = <<>>]>>
  ELSE audioState

\* setAnnotations(anns) followed by the effect on [annotations]
SetAnnotations(a, anns) ==
  [a EXCEPT !.annotations = anns, !.audioState = DropFiltered(a.audioState)]

\* A source's buffer is kept only while sourceNodeRef.current points at the
\* source: nothing else in the App can reach it.
Unreferenced(sources, s) ==
  IF s # 0 THEN [sources EXCEPT ![s].buffer = <<>>] ELSE sources

\* stopPlayback, lines 154-161
StopPlayback(a) ==
  [a EXCEPT !.sources = IF a.sourceNodeRef # 0
                        THEN Unreferenced([@ EXCEPT ![a.sourceNodeRef].state =
                                             IF @ = "started" THEN "stopped" ELSE @],
                                          a.sourceNodeRef)
                        ELSE @,
            !.sourceNodeRef = 0,
            !.isPlaying = FALSE,
            !.isPlayingRef = FALSE]

\* mutant: onended does not test which source has ended
OnEndedUnguarded(a, s) ==
  [a EXCEPT !.sources[s].state = IF a.sourceNodeRef = s THEN "ended" ELSE "endedStale",
            !.isPlaying = FALSE,
            !.isPlayingRef = FALSE]

\* source.onended, lines 136-141, for source s; the state "endedStale"
\* records that s was not sourceNodeRef.current when its event was delivered
OnEnded(a, s) ==
  IF a.sourceNodeRef = s
  THEN [a EXCEPT !.sources[s].state = "ended",
                 !.isPlaying = FALSE,
                 !.isPlayingRef = FALSE]
  ELSE [a EXCEPT !.sources[s].state = "endedStale"]

\* ---- annotations

AnnotationIds(a) == {a.annotations[k].id : k \in 1 .. Len(a.annotations)}

\* AnnotationLayer.handleMouseUp -> onAdd, App.tsx line 400; the layer is
\* rendered only while specData (set and cleared together with audioState)
\* is present
AddAnnotation ==
  /\ app.phase = "mounted"
  /\ app.audioState # <<>>
  /\ Len(app.annotations) < MaxAnn
  /\ \E id \in (1 .. MaxAnn) \ AnnotationIds(app) :
       app' = SetAnnotations(app, Append(app.annotations, [id |-> id, label |-> ""]))
  /\ UNCHANGED <<pipeVars, fft, mel>>

\* onRemove, line 401, and the Remove button, line 474
RemoveAnnotation ==
  /\ app.phase = "mounted"
  /\ \E k \in 1 .. Len(app.annotations) :
       app' = SetAnnotations(app, SelectSeq(app.annotations,
                                            LAMBDA ann : ann.id # app.annotations[k].id))
  /\ UNCHANGED <<pipeVars, fft, mel>>

\* updateAnnotationLabel, lines 163-165
EditLabel ==
  /\ app.phase = "mounted"
  /\ \E k \in 1 .. Len(app.annotations), label \in Labels :
       /\ label # app.annotations[k].label
       /\ app' = SetAnnotations(app, [app.annotations EXCEPT ![k].label = label])
  /\ UNCHANGED <<pipeVars, fft, mel>>

\* ---- playback

\* handleTogglePlay(filter), lines 111-152; the buttons are disabled without
\* audioState, while recording, and (Play Filtered) without annotations
TogglePlay ==
  /\ app.phase = "mounted"
  /\ app.audioState # <<>>
  /\ ~app.isRecording
  /\ \E filter \in BOOLEAN :
       /\ filter => app.annotations # <<>>
       /\ IF app.isPlaying
          THEN app' = StopPlayback(app)
          ELSE LET st == app.audioState[1]
                   reconstruct == filter /\ st.filteredBuffer = <<>>
                   filtered == Reconstructed(st.buffer, app.annotations)
                   newState == IF reconstruct
                               THEN [st EXCEPT !.filteredBuffer = <<filtered>>]
                               ELSE st
                   bufferToPlay == IF filter THEN newState.filteredBuffer[1]
                                   ELSE st.buffer
               IN  /\ Len(app.sources) < MaxSources
                   /\ app' = [app EXCEPT
                                !.audioState = <<newState>>,
                                !.sources = Append(Unreferenced(@, app.sourceNodeRef),
                                                   [buffer |-> <<bufferToPlay>>,
                                                    state |-> "started"]),
                                !.sourceNodeRef = Len(app.sources) + 1,
                                !.isPlaying = TRUE,
                                !.isPlayingRef = TRUE,
                                !.isFiltered = filter]
  /\ UNCHANGED <<pipeVars, fft, mel>>

\* handleScrub, lines 238-251, while playing (otherwise it moves the
\* playhead only)
Scrub ==
  /\ app.phase = "mounted"
  /\ app.audioState # <<>>
  /\ ~app.isRecording
  /\ app.isPlayingRef
  /\ app' = StopPlayback(app)
  /\ UNCHANGED <<pipeVars, fft, mel>>

\* the 'ended' event of a source that has played to its end or was stopped
SourceEnded ==
  /\ app.phase = "mounted"
  /\ \E s \in 1 .. Len(app.sources) :
       /\ app.sources[s].state \in {"started", "stopped"}
       /\ app' = OnEnded(app, s)
  /\ UNCHANGED <<pipeVars, fft, mel>>

\* the animation frame callback at progress >= 1, lines 209-223
PlayheadEnd ==
  /\ app.phase = "mounted"
  /\ app.isPlayingRef
  /\ app.isPlaying
  /\ app' = [app EXCEPT !.isPlaying = FALSE, !.isPlayingRef = FALSE]
  /\ UNCHANGED <<pipeVars, fft, mel>>

\* ---- recording

\* startRecording up to `await getUserMedia`, lines 49-54; the Capture button
\* is rendered while isRecording is false
StartRecording ==
  /\ app.phase = "mounted"
  /\ ~app.isRecording
  /\ Len(app.recordings) < MaxRecordings
  /\ app' = [app EXCEPT !.recordings =
               Append(@, [stage |-> "awaitMic", stops |-> 0, timer |-> FALSE])]
  /\ UNCHANGED <<pipeVars, fft, mel>>

\* getUserMedia resolves for invocation i: lines 55-103
MicGranted ==
  /\ app.phase = "mounted"
  /\ \E i \in 1 .. Len(app.recordings) :
       /\ app.recordings[i].stage = "awaitMic"
       /\ app' = [app EXCEPT !.recordings[i].stage = "recording",
                             !.recordings[i].timer = TRUE,
                             !.isRecording = TRUE,
                             !.annotations = <<>>,
                             !.audioState = <<>>,
                             !.recordingTimerRef = i]
  /\ UNCHANGED <<pipeVars, fft, mel>>

\* getUserMedia rejects: lines 105-108
MicDenied ==
  /\ app.phase = "mounted"
  /\ \E i \in 1 .. Len(app.recordings) :
       /\ app.recordings[i].stage = "awaitMic"
       /\ app' = [app EXCEPT !.recordings[i].stage = "denied"]
  /\ UNCHANGED <<pipeVars, fft, mel>>

\* clearInterval(recordingTimerRef.current)
ClearTimer(recs, ref) ==
  IF ref \in 1 .. Len(recs) THEN [recs EXCEPT ![ref].timer = FALSE] ELSE recs

\* the interval callback of invocation i once 8000 ms have elapsed, lines
\* 95-103 (before that it only updates the progress bar).  stop() on a
\* recorder that is no longer recording throws InvalidStateError in some
\* browsers and returns in others.
TimerExpires(i) ==
  /\ app.phase = "mounted"
  /\ i \in 1 .. Len(app.recordings)
  /\ app.recordings[i].timer
  /\ app.recordings[i].stops < StopsFollowed
  /\ \E throws \in BOOLEAN :
       LET rec == app.recordings[i]
           active == rec.stage = "recording"
           called == [app.recordings EXCEPT
                        ![i].stops = @ + 1,
                        ![i].stage = IF active THEN "stopped" ELSE @]
       IN  IF ~active /\ throws
           THEN app' = [app EXCEPT !.recordings = called]
           ELSE /\ active => ~throws
                /\ app' = [app EXCEPT
                             !.recordings = ClearTimer(called, app.recordingTimerRef),
                             !.isRecording = FALSE]
  /\ UNCHANGED <<pipeVars, fft, mel>>

TimerTick == \E i \in 1 .. MaxRecordings : TimerExpires(i)

\* mediaRecorder.onstop of invocation i, lines 59-82
RecorderStopped ==
  /\ app.phase = "mounted"
  /\ \E i \in 1 .. Len(app.recordings) :
       /\ app.recordings[i].stage = "stopped"
       /\ app' = [app EXCEPT !.recordings[i].stage = "decoded",
                             !.audioState = <<[buffer |-> Decoded(i),
                                               filteredBuffer |-> <<>>]>>]
  /\ UNCHANGED <<pipeVars, fft, mel>>

NextApp ==
  \/ AddAnnotation
  \/ RemoveAnnotation
  \/ EditLabel
  \/ TogglePlay
  \/ Scrub
  \/ SourceEnded
  \/ PlayheadEnd
  \/ StartRecording
  \/ MicGranted
  \/ MicDenied
  \/ TimerTick
  \/ RecorderStopped

SpecApp == InitApp /\ [][NextApp]_vars

\* the interval timers of the browser fire, and its events are delivered
SpecAppFair ==
  /\ SpecApp
  /\ \A i \in 1 .. MaxRecordings : WF_vars(TimerExpires(i))
  /\ WF_vars(RecorderStopped)

\* ================================================================= claims

Reconstructing == call = "applyMaskAndReconstruct"

Spectrogramming == call = "computeSpectrogram"

Returned == pc = "returned" /\ result # <<>>

IsPowerOfTwo(n) == n >= 1 /\ 2^Log2Floor(n) = n

Max(a, b) == IF a >= b THEN a ELSE b

\* C1: whatever the signal, the mask list, windowSize and hopSize, the buffer
\* applyMaskAndReconstruct returns has one channel, exactly as many samples as
\* the input and the input's sample rate.
C1_SameLengthAndRate ==
  (Reconstructing /\ Returned) =>
    /\ result[1].numberOfChannels = 1
    /\ result[1].length = Len0(data)
    /\ Len0(result[1].channel) = Len0(data)
    /\ result[1].sampleRate = sampleRate

\* a reconstruction that processed frames under a mask and returned
C1_Witness ==
  /\ Reconstructing /\ Returned
  /\ f >= 2
  /\ annotations # <<>>
  /\ Len0(data) > windowSize

\* C2: for hopSize > 0 computeSpectrogram returns max(0, floor((L-n)/h)) rows
\* of melBinsCount columns each, one time per row and melBinsCount
\* frequencies; a power-of-two window never stops it on the way, and
\* L=16384, n=1024, h=256 gives 60 rows.
C2_SpectrogramShape ==
  /\ (Spectrogramming /\ Returned /\ hopSize > 0) =>
       LET rows == Max(0, (Len0(data) - windowSize) \div hopSize)
       IN  /\ Len(result[1].spectrogram) = rows
           /\ \A r \in 1 .. Len(result[1].spectrogram) :
                Len(result[1].spectrogram[r]) = melBinsCount
           /\ Len(result[1].times) = rows
           /\ Len(result[1].frequencies) = melBinsCount
  /\ (Spectrogramming /\ hopSize > 0 /\ IsPowerOfTwo(windowSize)) =>
       /\ pc # "hung"
       /\ pc = "frames" =>
            f <= Max(0, (Len0(data) - windowSize) \div hopSize)
  /\ ArrayLength(NumFrames(16384, 1024, 256)) = 60

\* a returned spectrogram of several rows
C2_Witness ==
  /\ Spectrogramming /\ Returned
  /\ hopSize > 0
  /\ Len(result[1].spectrogram) >= 2
  /\ melBinsCount >= 2

ValidConfig == IsPowerOfTwo(windowSize) /\ hopSize > 0 /\ hopSize < windowSize

\* C3: a windowSize that is no power of two, or a hopSize <= 0, is rejected
\* before anything is done: no frame is processed, the frame loop is not
\* entered (so it cannot run for ever), the transform is not started and
\* nothing is returned.
C3_BadConfigRejected ==
  (call # "none" /\ (~IsPowerOfTwo(windowSize) \/ hopSize <= 0)) =>
    /\ f = 0
    /\ lastFrame = <<>>
    /\ pc # "hung"
    /\ result = <<>>

\* sample i lies in the annotated segment: x*L <= i <= (x+width)*L
InSegment(i, ann, len) ==
  ann.x * len <= i * AnnGrid /\ i * AnnGrid <= (ann.x + ann.width) * len

\* C4: with a valid configuration, every output sample inside an annotated
\* segment is zero.
C4_AnnotatedSegmentsSilent ==
  (Reconstructing /\ Returned /\ ValidConfig) =>
    \A a \in 1 .. Len(annotations) : \A i \in 0 .. Len0(data) - 1 :
      InSegment(i, annotations[a], Len0(data)) => result[1].channel[i] = 0

\* the frame's time position i / numFrames lies in some mask interval, both
\* ends included
CoveredByMask(i) ==
  \E a \in 1 .. Len(annotations) :
    LET x == annotations[a].x
        w == annotations[a].width
    IN  IF numFrames.kind = "inf" THEN x <= 0 /\ 0 <= x + w
        ELSE x * numFrames.v <= i * AnnGrid /\ i * AnnGrid <= (x + w) * numFrames.v

AllZero(arr) == \A i \in DOMAIN arr : arr[i] = 0

\* C5: a frame whose time position lies in a mask interval reaches the
\* inverse transform with all of its real and imaginary content zero and
\* leaves every output sample as it was; a frame in no interval reaches the
\* inverse transform as the forward transform left it.
C5_MaskedFrameAddsNothing ==
  [][ (Reconstructing /\ lastFrame' # lastFrame /\ ~lastFrame'[1].hang) =>
        LET r == lastFrame'[1]
        IN  /\ r.f = f
            /\ r.masked = CoveredByMask(f)
            /\ r.spectrum.real = Forward(FFTPlan(windowSize),
                                         WindowedFrame(data, f * hopSize, windowSize),
                                         Zeros(windowSize)).real
            /\ CoveredByMask(f) =>
                 /\ AllZero(r.passed.real) /\ AllZero(r.passed.imag)
                 /\ AllZero(r.added)
                 /\ reconstructed' = reconstructed
            /\ ~CoveredByMask(f) => r.passed = r.spectrum ]_vars

\* a masked frame of non-zero spectrum has been processed after an unmasked
\* one
C5_Witness ==
  /\ Reconstructing /\ pc = "frames" /\ f >= 2
  /\ lastFrame # <<>> /\ ~lastFrame[1].hang
  /\ lastFrame[1].masked
  /\ ~AllZero(lastFrame[1].spectrum.imag)
  /\ ~AllZero(reconstructed)

Abs(v) == IF v >= 0 THEN v ELSE 0 - v

\* the reconstruction error allowed: 1/256 of full scale
Tolerance == One \div 256

\* C6: with no mask and a valid configuration, every output sample of a
\* signal at least one window long equals the input sample up to the
\* tolerance.
C6_EmptyMaskReproducesInput ==
  (Reconstructing /\ Returned /\ ValidConfig /\ annotations = <<>>
     /\ Len0(data) >= windowSize) =>
    \A i \in 0 .. Len0(data) - 1 :
      /\ ~IsNaN(result[1].channel[i])
      /\ Abs(result[1].channel[i] - data[i]) <= Tolerance

ExactSize(n) == n \in {2, 4}

\* the rounding of the twiddle factor sqrt(2)/2 allows this much drift
RoundTripTolerance == One \div 1024

Close(a, b) ==
  \A i \in DOMAIN a : ~IsNaN(a[i]) /\ Abs(a[i] - b[i]) <= RoundTripTolerance

\* C8: FFT.inverse after FFT.forward restores both buffers: exactly for the
\* sizes 2 and 4, whose twiddle factors are exact, and up to rounding for
\* size 8.
C8_RoundTrip ==
  fft.phase = "inverted" =>
    /\ DOMAIN fft.real = 0 .. fft.n - 1
    /\ DOMAIN fft.imag = 0 .. fft.n - 1
    /\ ExactSize(fft.n) => fft.real = fft.origReal /\ fft.imag = fft.origImag
    /\ Close(fft.real, fft.origReal)
    /\ Close(fft.imag, fft.origImag)

\* a size-4 buffer pair with non-zero real and imaginary parts has made the
\* round trip
C8_Witness ==
  /\ fft.phase = "inverted"
  /\ fft.n = 4
  /\ ~AllZero(fft.origReal)
  /\ ~AllZero(fft.origImag)
  /\ fft.origReal[1] # fft.origReal[2]

\* C9: FFT.forward on the unit impulse real = [1, 0, ..., 0], imag = 0
\* leaves real[k] = 1 and imag[k] = 0 for every k, for the sizes 2, 4 and 8.
C9_ImpulseFlatSpectrum ==
  (/\ fft.phase = "forward"
   /\ fft.origReal = UnitImpulse(fft.n, 0)
   /\ fft.origImag = Zeros(fft.n)) =>
    /\ fft.real = [k \in 0 .. fft.n - 1 |-> One]
    /\ fft.imag = Zeros(fft.n)

\* the size-8 impulse has been transformed
C9_Witness ==
  /\ fft.phase = "forward"
  /\ fft.n = 8
  /\ fft.origReal = UnitImpulse(8, 0)
  /\ fft.origImag = Zeros(8)

\* ------------------------------------------------------- claims on SpecMel

\* the boundary bins of the filter at position i of mel.filterbank
LeftBin(i) == mel.binPoints[i - 1]

CenterBin(i) == mel.binPoints[i]

RightBin(i) == mel.binPoints[i + 1]

Bins == 0 .. FilterLen(mel.windowSize) - 1

\* weights 0 below b0 and at or above b2
ZeroOutside(i) ==
  \A j \in Bins :
    (j < LeftBin(i) \/ j >= RightBin(i)) => mel.filterbank[i][j] = 0

\* weights non-decreasing over the bins lo .. hi
NonDecreasing(i, lo, hi) ==
  \A j \in Bins, k \in Bins :
    (lo <= j /\ j <= k /\ k <= hi) => mel.filterbank[i][j] <= mel.filterbank[i][k]

\* weights non-increasing over the bins lo .. hi
NonIncreasing(i, lo, hi) ==
  \A j \in Bins, k \in Bins :
    (lo <= j /\ j <= k /\ k <= hi) => mel.filterbank[i][j] >= mel.filterbank[i][k]

\* C10 as stated: every filter is 0 outside [b0, b2), non-decreasing from b0
\* to b1, exactly 1 at b1 and non-increasing from b1 to b2.
C10_CenterAlwaysOne ==
  \A i \in 1 .. Len(mel.filterbank) :
    /\ LeftBin(i) <= CenterBin(i) /\ CenterBin(i) <= RightBin(i)
    /\ RightBin(i) \in Bins
    /\ ZeroOutside(i)
    /\ NonDecreasing(i, LeftBin(i), CenterBin(i))
    /\ mel.filterbank[i][CenterBin(i)] = One
    /\ NonIncreasing(i, CenterBin(i), RightBin(i))

\* C10, amended: every filter is 0 outside [b0, b2) and non-increasing from b1
\* to b2; when the falling segment is not empty (b1 < b2) the weight at b1 is
\* exactly 1 and the weights are non-decreasing from b0 to b1; when it is
\* empty (b1 = b2) the weight at b1 is 0 and the weights are non-decreasing
\* from b0 to b1 - 1.
C10_FilterShape ==
  \A i \in 1 .. Len(mel.filterbank) :
    /\ LeftBin(i) <= CenterBin(i) /\ CenterBin(i) <= RightBin(i)
    /\ RightBin(i) \in Bins
    /\ ZeroOutside(i)
    /\ NonIncreasing(i, CenterBin(i), RightBin(i))
    /\ \A j \in Bins : mel.filterbank[i][j] >= 0 /\ mel.filterbank[i][j] <= One
    /\ CenterBin(i) < RightBin(i) =>
         /\ mel.filterbank[i][CenterBin(i)] = One
         /\ NonDecreasing(i, LeftBin(i), CenterBin(i))
    /\ CenterBin(i) = RightBin(i) =>
         /\ mel.filterbank[i][CenterBin(i)] = 0
         /\ NonDecreasing(i, LeftBin(i), CenterBin(i) - 1)

\* a finished filterbank holds a filter whose rising segment is not empty and
\* whose falling segment is (b0 < b1 = b2), next to one that peaks at 1
C10_Witness ==
  /\ mel.phase = "filters"
  /\ Len(mel.filterbank) = mel.melBinsCount
  /\ \E i \in 1 .. Len(mel.filterbank) :
       LeftBin(i) < CenterBin(i) /\ CenterBin(i) = RightBin(i)
  /\ \E i \in 1 .. Len(mel.filterbank) :
       CenterBin(i) < RightBin(i) /\ mel.filterbank[i][CenterBin(i)] = One

\* ----------------------------------------------------- claims on SpecTwice

\* C11: no step of either function changes the caller's samples or the mask
\* list, and a second call with the same arguments returns what the first
\* call returned.
C11_InputsUntouchedSameResult ==
  [][ /\ data' = data
      /\ annotations' = annotations
      /\ sampleRate' = sampleRate
      /\ Len(result') = 2 => result'[2] = result'[1] ]_vars

\* a masked reconstruction with non-zero output has been computed twice
C11_Witness ==
  /\ Reconstructing
  /\ Len(result) = 2
  /\ annotations # <<>>
  /\ f >= 2
  /\ ~AllZero(result[2].channel)

\* --------------------------------------------------- more claims on Spec

\* the spectrogram's time of frame i, times[i] = i * hopSize / sampleRate, as
\* a fraction of the duration data.length / sampleRate, lies in the interval
\* (compared exactly, in units of 1/AnnGrid)
OnTimeAxis(i, ann) ==
  LET t == FrameTime(i, hopSize, sampleRate)
  IN  /\ t.num * AnnGrid >= ann.x * Len0(data)
      /\ t.num * AnnGrid <= (ann.x + ann.width) * Len0(data)

\* C12: under a valid configuration the reconstruction zeroes frame f exactly
\* when the spectrogram's time of frame f, as a fraction of the signal's
\* duration, lies in some mask interval.
C12_MaskedFramesMatchTimeAxis ==
  (Reconstructing /\ ValidConfig /\ lastFrame # <<>>) =>
    (lastFrame[1].masked <=>
       \E a \in 1 .. Len(annotations) : OnTimeAxis(lastFrame[1].f, annotations[a]))

\* sample i lies in frame g, under a non-zero window weight or under any
InFrame(i, g) == i >= g * hopSize /\ i < g * hopSize + windowSize

Weighted(i, g) == InFrame(i, g) /\ hanningWindow(windowSize)[i - g * hopSize] # 0

C14_BinPointsInRange ==
  mel.phase = "filters" =>
    /\ DOMAIN mel.binPoints = 0 .. mel.melBinsCount + 1
    /\ mel.binPoints[0] = 0
    /\ mel.binPoints[mel.melBinsCount + 1] <= mel.windowSize \div 2
    /\ \A i \in 0 .. mel.melBinsCount : mel.binPoints[i] <= mel.binPoints[i + 1]
    /\ \A i \in 1 .. Len(mel.filterbank) :
         /\ DOMAIN mel.filterbank[i] = 0 .. mel.windowSize \div 2
         /\ \A j \in LeftBin(i) .. RightBin(i) - 1 : j \in DOMAIN mel.filterbank[i]

\* the boundary bins of a 16-point window with three filters, all distinct,
\* the last one at windowSize / 2, and all three filters built
C14_Witness ==
  /\ mel.phase = "filters"
  /\ mel.windowSize = 16
  /\ Len(mel.filterbank) = 3
  /\ \A i \in 0 .. mel.melBinsCount : mel.binPoints[i] < mel.binPoints[i + 1]
  /\ mel.binPoints[mel.melBinsCount + 1] = 8

\* C15: no filter holds a NaN or an infinite weight: every weight is a number
\* between 0 and 1.  A filter whose rising segment has zero width (b0 = b1)
\* holds no non-zero weight below b1, and one whose falling segment has zero
\* width (b1 = b2) holds none at or above b1: the loop over such a segment
\* does not run, so it divides nothing by its zero width.
C15_NoWeightOnZeroWidthSegment ==
  \A i \in 1 .. Len(mel.filterbank) : \A j \in Bins :
    /\ ~IsNaN(mel.filterbank[i][j])
    /\ mel.filterbank[i][j] \in 0 .. One
    /\ (LeftBin(i) = CenterBin(i) /\ j < CenterBin(i)) => mel.filterbank[i][j] = 0
    /\ (CenterBin(i) = RightBin(i) /\ j >= CenterBin(i)) => mel.filterbank[i][j] = 0

\* a finished filterbank with a zero-width rising segment, a zero-width
\* falling segment, and a filter whose three bins coincide
C15_Witness ==
  /\ mel.phase = "filters"
  /\ Len(mel.filterbank) = mel.melBinsCount
  /\ \E i \in 1 .. Len(mel.filterbank) :
       LeftBin(i) = CenterBin(i) /\ CenterBin(i) < RightBin(i)
  /\ \E i \in 1 .. Len(mel.filterbank) :
       LeftBin(i) < CenterBin(i) /\ CenterBin(i) = RightBin(i)
  /\ \E i \in 1 .. Len(mel.filterbank) :
       LeftBin(i) = CenterBin(i) /\ CenterBin(i) = RightBin(i)

\* ----------------------------------------------------- claims on SpecBitRev

\* the number whose `bits`-bit binary representation is that of i reversed
RECURSIVE BitReverse(_, _)
BitReverse(i, bits) ==
  IF bits = 0 THEN 0
  ELSE (i % 2) * 2^(bits - 1) + BitReverse(i \div 2, bits - 1)

\* the pairs (i, bitreverse(i)) with i < bitreverse(i), for i below `upto`
PairsBelow(upto, bits) ==
  {<<i, BitReverse(i, bits)>> : i \in {k \in 0 .. upto - 1 : k < BitReverse(k, bits)}}

\* C16: for a power-of-two n the first loop of forward always ends; at each
\* iteration i the running partner j is bitreverse(i), within 0 .. n-1; the
\* pairs swapped so far are the pairs (i', bitreverse(i')) with
\* i' < bitreverse(i') of the iterations done, each swapped once; and after
\* the loop the element that was at index i is at index bitreverse(i).
C16_BitReversal ==
  (fft.phase \in {"bitrev", "hung", "permuted"} /\ IsPowerOfTwo(fft.n)) =>
    LET bits == Log2Floor(fft.n)
    IN  /\ fft.phase # "hung"
        /\ fft.i \in 0 .. fft.n - 1
        /\ fft.j \in 0 .. fft.n - 1
        /\ fft.j = BitReverse(fft.i, bits)
        /\ {fft.swaps[k] : k \in 1 .. Len(fft.swaps)} = PairsBelow(fft.i, bits)
        /\ Len(fft.swaps) = Cardinality(PairsBelow(fft.i, bits))
        /\ fft.phase = "permuted" =>
             \A i \in 0 .. fft.n - 1 :
               /\ fft.real[BitReverse(i, bits)] = fft.origReal[i]
               /\ fft.imag[BitReverse(i, bits)] = fft.origImag[i]

\* the loop has permuted 16 distinct samples with its six swaps
C16_Witness ==
  /\ fft.phase = "permuted"
  /\ fft.n = 16
  /\ fft.origReal = Ramp(16)
  /\ Len(fft.swaps) = 6
  /\ fft.real[8] = fft.origReal[1]

\* ------------------------------------------------------- claims on SpecApp

\* what applyMaskAndReconstruct gives for the recording and the annotation
\* list of state a
CurrentFiltered(a) == Reconstructed(a.audioState[1].buffer, a.annotations)

HasFiltered(a) == a.audioState # <<>> /\ a.audioState[1].filteredBuffer # <<>>

\* C17: after every handler, a cached filteredBuffer is the reconstruction
\* of the current recording under the current annotation list; a filtered
\* playback that starts plays that buffer; and a step that changes the
\* annotation list leaves no cached buffer behind.
C17_FilteredCacheCurrent ==
  [][ /\ HasFiltered(app') =>
           app'.audioState[1].filteredBuffer = <<CurrentFiltered(app')>>
      /\ (Len(app'.sources) > Len(app.sources) /\ app'.isFiltered) =>
           /\ HasFiltered(app')
           /\ app'.sources[app'.sourceNodeRef].buffer = <<CurrentFiltered(app')>>
      /\ app'.annotations # app.annotations => ~HasFiltered(app') ]_vars

\* the second recording is played filtered, from a buffer computed under a
\* relabelled annotation
C17_Witness ==
  /\ app.phase = "mounted"
  /\ HasFiltered(app)
  /\ app.audioState[1].buffer = Decoded(2)
  /\ app.annotations # <<>>
  /\ app.annotations[1].label = "click"
  /\ app.isPlaying /\ app.isFiltered
  /\ app.sourceNodeRef # 0
  /\ app.sources[app.sourceNodeRef].buffer = app.audioState[1].filteredBuffer

\* C18: after every handler isPlaying and isPlayingRef agree; the 'ended'
\* event of a source that is not sourceNodeRef.current changes neither, and
\* that of the current source sets both to false.
C18_StaleEndedIgnored ==
  [][ /\ app'.isPlaying = app'.isPlayingRef
      /\ \A s \in 1 .. Len(app.sources) :
           (/\ app.sources[s].state \in {"started", "stopped"}
            /\ app'.sources[s].state \in {"ended", "endedStale"}) =>
             IF app.sourceNodeRef = s
             THEN ~app'.isPlaying /\ ~app'.isPlayingRef
             ELSE /\ app'.isPlaying = app.isPlaying
                  /\ app'.isPlayingRef = app.isPlayingRef ]_vars

\* the 'ended' event of a replaced source has been delivered, and the later
\* playback goes on
C18_Witness ==
  /\ app.phase = "mounted"
  /\ app.isPlaying /\ app.isPlayingRef
  /\ app.sourceNodeRef = 2
  /\ app.sources[2].state = "started"
  /\ app.sources[1].state = "endedStale"

\* C19: every invocation of startRecording that has started its
\* MediaRecorder leads to a state in which that recorder has received
\* stop() exactly once and that invocation's interval timer is cleared.
C19_EveryRecordingStoppedOnce ==
  \A i \in 1 .. MaxRecordings :
    (i <= Len(app.recordings) /\ app.recordings[i].stage = "recording")
      ~> [](/\ i <= Len(app.recordings)
            /\ app.recordings[i].stops = 1
            /\ ~app.recordings[i].timer)

====
